---- MODULE Spec2Model ----
(***************************************************************************)
(* State-machine model of the game-server hosting API: the server create   *)
(* flow (node selection, port probe, insert retry, RAM reservation, agent  *)
(* provisioning), power actions, plan change, delete, account deletion and *)
(* the watchdog status-sync endpoint.  Every await on the durable store or *)
(* on the node agent is one atomic step; requests interleave between the   *)
(* steps.                                                                  *)
(***************************************************************************)
EXTENDS Integers, FiniteSets, Sequences, TLC

\* ------------------------------------------------------------------ bounds
\* requests (status-sync calls included) started in one behaviour of Spec
MaxRequests == 2
\* create requests started in one behaviour of SpecCreate
MaxCreates == 2

\* ------------------------------------------------------- program constants
\* billing.ts:236  (serverCount ?? 0) >= 5
ServerLimit == 5
\* billing.ts:265  insertAttempts < 10
MaxInsertAttempts == 10
\* billing.ts:259  default base port
BasePort == 25565
\* billing.ts:169  z.number().int().min(1024).max(65535)
PortMin == 1024
PortMax == 65535

\* --------------------------------------------------------------- the world
\* request slots: the handlers that may be in flight at the same time
Reqs == {1, 2}
Users == {"u1", "u2"}
Nodes == {"A", "B"}
\* rows of the plans table; "legacy" is a row with is_active = false
PlanRows == {"small", "large", "legacy"}
ActivePlans == {"small", "large"}
\* plan ids a request may name ("missing" is a uuid of no row)
PlanIds == PlanRows \cup {"missing"}
PlanRam(p) == CASE p = "small" -> 1024 [] p = "large" -> 2048 [] OTHER -> 512
\* nodes.total_ram_mb
NodeTotal(n) == IF n = "A" THEN 16384 ELSE 1024
\* the static bearer credential of a node's agent
AgentToken(n) == <<"token", n>>
NoPort == 0
\* ports a create request may ask for (NoPort: the field is absent)
PortInputs == {NoPort, BasePort, 80}
VALID_STATUSES == {"running", "stopped", "starting", "stopping", "error", "suspended"}
\* the observed container address of a status report (NoIp: the field is absent)
NoIp == "none"
\* bodies {status, lxc_ip?} a status-sync call may carry
SyncInputs ==
    { [status |-> "running", lxc_ip |-> "10.0.0.9"],
      [status |-> "stopped", lxc_ip |-> NoIp],
      [status |-> "suspended", lxc_ip |-> NoIp],
      [status |-> "bogus", lxc_ip |-> NoIp] }
Actions == {"start", "stop", "restart"}
None == "none"

VARIABLES
    servers,      \* servers table: id -> row
    allocated,    \* nodes.allocated_ram_mb
    nodeStatus,   \* nodes.status
    logs,         \* server_logs table
    nextId,       \* next server id handed out by the store
    req,          \* request slot -> handler locals and position
    started,      \* requests started so far
    sync,         \* the last status-sync call and its response
    console       \* the console session: sockets, handler position, frames

vars == <<servers, allocated, nodeStatus, logs, nextId, req, started, sync, console>>

Max(a, b) == IF a >= b THEN a ELSE b

Idle ==
    [ kind |-> None, pc |-> "idle", user |-> None, id |-> 0, plan_id |-> None,
      ram_mb |-> 0, reqPort |-> NoPort, node |-> None, nodeAlloc |-> 0,
      port |-> 0, insertAttempts |-> 0,
      status |-> None, freshAlloc |-> 0, action |-> None, result |-> None,
      agentCalls |-> 0, agentOk |-> FALSE ]

\* no console session: no socket on either side
NoSession ==
    [ pc |-> "none", id |-> 0, token |-> None, user |-> None,
      client |-> "none", agent |-> "none", error |-> None,
      toClient |-> <<>>, toAgent |-> <<>>, frames |-> 0,
      fromClient |-> <<>>, fromAgent |-> <<>> ]

\* ------------------------------------------------------ the durable store
Ids == DOMAIN servers

\* rows of the servers table seen by a query filtered on user_id
RowsOf(u) == {i \in Ids : servers[i].user_id = u}

\* servers.select('port').eq('node_id', n)
usedPorts(n) == {servers[i].port : i \in {j \in Ids : servers[j].node_id = n}}

\* a store that lacks the constraint and admits every insert
NoConstraint(n, p) == FALSE

\* the uniqueness constraint on (node_id, port): an insert that would break it
\* is refused with code 23505
UniqueViolation(n, p) == \E i \in Ids : servers[i].node_id = n /\ servers[i].port = p

\* count of the user's rows with status other than error
CountNonError(u) == Cardinality({i \in RowsOf(u) : servers[i].status # "error"})

\* a selector that forgets the ordering
AnyOnlineNode == {n \in Nodes : nodeStatus[n] = "online"}

\* nodes.eq('status','online').order('allocated_ram_mb').limit(1): the rows the
\* store may return first (ties are in no defined order)
BestNodes ==
    LET online == {n \in Nodes : nodeStatus[n] = "online"}
    IN  {n \in online : \A m \in online : allocated[n] <= allocated[m]}

\* the linear probe of the port allocator
RECURSIVE Probe(_, _)
Probe(taken, p) == IF p \in taken THEN Probe(taken, p + 1) ELSE p

FirstPort(taken, requestedPort) ==
    Probe(taken, IF requestedPort # NoPort /\ requestedPort \notin taken
                 THEN requestedPort ELSE BasePort)

\* CreateServerSchema on the optional port field
PortValid(p) == p = NoPort \/ (p >= PortMin /\ p <= PortMax)

NewRow(r) ==
    [ user_id |-> req[r].user, node_id |-> req[r].node, plan_id |-> req[r].plan_id,
      port |-> req[r].port, ram_mb |-> req[r].ram_mb, status |-> "installing",
      lxc_ip |-> NoIp ]

\* the handler returned: its locals are gone, the response stays observable
Finish(r, code) ==
    [Idle EXCEPT !.kind = req[r].kind, !.pc = "done", !.user = req[r].user,
                 !.id = req[r].id, !.insertAttempts = req[r].insertAttempts,
                 !.result = code]

\* ------------------------------------------------------------ create flow
\* POST /servers: the body is validated, then 1. the plan is fetched (the plans
\* table is a read-only catalog, so the fetch is part of this step)
CreateStart(r, u, p, port) ==
    /\ req[r].pc \in {"idle", "done"}
    /\ started' = started + 1
    /\ req' = [req EXCEPT ![r] =
          LET new == [Idle EXCEPT !.kind = "create", !.user = u] IN
          IF ~PortValid(port) THEN [new EXCEPT !.pc = "done", !.result = "400 validation"]
          ELSE IF p \notin PlanRows THEN [new EXCEPT !.pc = "done", !.result = "404 plan"]
          ELSE [new EXCEPT !.pc = "c_count", !.plan_id = p, !.ram_mb = PlanRam(p),
                           !.reqPort = port]]
    /\ UNCHANGED <<servers, allocated, nodeStatus, logs, nextId, sync, console>>

\* a limit check that lets the user reach one server more
AtLimitOffByOne(serverCount) == serverCount > ServerLimit

\* (serverCount ?? 0) >= 5
AtLimit(serverCount) == serverCount >= ServerLimit

\* 1b. per-user server limit
CreateCheckLimit(r) ==
    /\ req[r].pc = "c_count"
    /\ req' = [req EXCEPT ![r] =
          IF AtLimit(CountNonError(req[r].user))
          THEN Finish(r, "403 limit")
          ELSE [@ EXCEPT !.pc = "c_node"]]
    /\ UNCHANGED <<servers, allocated, nodeStatus, logs, nextId, started, sync, console>>

\* 2. pick the least-allocated online node
CreatePickNode(r) ==
    /\ req[r].pc = "c_node"
    /\ IF BestNodes = {}
       THEN req' = [req EXCEPT ![r] = Finish(r, "503 no node")]
       ELSE \E n \in BestNodes :
               req' = [req EXCEPT ![r] =
                  [@ EXCEPT !.pc = "c_ports", !.node = n, !.nodeAlloc = allocated[n]]]
    /\ UNCHANGED <<servers, allocated, nodeStatus, logs, nextId, started, sync, console>>

\* 3. read the ports used on the node and probe for a free one
CreateFindPort(r) ==
    /\ req[r].pc = "c_ports"
    /\ LET takenPorts == usedPorts(req[r].node)
       IN  req' = [req EXCEPT ![r] =
              [@ EXCEPT !.pc = "c_insert",
                        !.port = FirstPort(takenPorts, req[r].reqPort)]]
    /\ UNCHANGED <<servers, allocated, nodeStatus, logs, nextId, started, sync, console>>

\* a retry loop that never gives up
RetryForever(r) == [req[r] EXCEPT !.port = @ + 1, !.insertAttempts = @ + 1]

\* a retry loop that skips a port on each collision
RetrySkipping(r) ==
    IF req[r].insertAttempts + 1 < MaxInsertAttempts
    THEN [req[r] EXCEPT !.port = @ + 2, !.insertAttempts = @ + 1]
    ELSE [Finish(r, "500 ports") EXCEPT !.insertAttempts = @ + 1]

\* the retry loop after a 23505: port++, insertAttempts++, and the request fails
\* once the loop condition insertAttempts < 10 is false
AfterCollision(r) ==
    IF req[r].insertAttempts + 1 < MaxInsertAttempts
    THEN [req[r] EXCEPT !.port = @ + 1, !.insertAttempts = @ + 1]
    ELSE [Finish(r, "500 ports") EXCEPT !.insertAttempts = @ + 1]

\* 4. one insert attempt of the retry loop
CreateInsert(r) ==
    /\ req[r].pc = "c_insert"
    /\ IF UniqueViolation(req[r].node, req[r].port)
       THEN /\ req' = [req EXCEPT ![r] = AfterCollision(r)]
            /\ UNCHANGED <<servers, nextId>>
       ELSE /\ servers' = [i \in Ids \cup {nextId} |->
                              IF i = nextId THEN NewRow(r) ELSE servers[i]]
            /\ nextId' = nextId + 1
            /\ req' = [req EXCEPT ![r] = [@ EXCEPT !.pc = "c_reserve", !.id = nextId]]
    /\ UNCHANGED <<allocated, nodeStatus, logs, started, sync, console>>

\* 4. an insert refused by the store for another reason than 23505
CreateInsertError(r) ==
    /\ req[r].pc = "c_insert"
    /\ req' = [req EXCEPT ![r] = Finish(r, "500 insert")]
    /\ UNCHANGED <<servers, allocated, nodeStatus, logs, nextId, started, sync, console>>

\* the value step 5 writes to nodes.allocated_ram_mb
Reserved(r) == req[r].nodeAlloc + req[r].ram_mb

\* 5. reserve RAM on the node
CreateReserve(r) ==
    /\ req[r].pc = "c_reserve"
    /\ allocated' = [allocated EXCEPT ![req[r].node] = Reserved(r)]
    /\ req' = [req EXCEPT ![r] = [@ EXCEPT !.pc = "c_agent"]]
    /\ UNCHANGED <<servers, nodeStatus, logs, nextId, started, sync, console>>

\* the servers table after update({status}).eq('id', id)
SetStatus(id, s) ==
    [i \in Ids |-> IF i = id THEN [servers[i] EXCEPT !.status = s] ELSE servers[i]]

\* a catch block that rolls the insert back
RollBackRow(r) == [i \in Ids \ {req[r].id} |-> servers[i]]

\* the servers table after the catch block of step 6
MarkError(r) == SetStatus(req[r].id, "error")

\* 6. agent.post('/servers/create') failed or timed out: the catch block marks
\* the row as error and answers 502
CreateAgentFailed(r) ==
    /\ req[r].pc = "c_agent"
    /\ servers' = MarkError(r)
    /\ req' = [req EXCEPT ![r] = Finish(r, "502 agent")]
    /\ UNCHANGED <<allocated, nodeStatus, logs, nextId, started, sync, console>>

\* 6. the agent answered, 7. the action is logged and the request answers 201
CreateLog(r) ==
    /\ req[r].pc = "c_agent"
    /\ logs' = logs \cup {<<req[r].id, "create">>}
    /\ req' = [req EXCEPT ![r] = Finish(r, "201")]
    /\ UNCHANGED <<servers, allocated, nodeStatus, nextId, started, sync, console>>

CreateStep(r) ==
    \/ CreateCheckLimit(r)
    \/ CreatePickNode(r)
    \/ CreateFindPort(r)
    \/ CreateInsert(r)
    \/ CreateInsertError(r)
    \/ CreateReserve(r)
    \/ CreateAgentFailed(r)
    \/ CreateLog(r)

\* ----------------------------------------------------------- delete flow
DeleteStart(r, u, id) ==
    /\ req[r].pc \in {"idle", "done"}
    /\ started' = started + 1
    /\ req' = [req EXCEPT ![r] =
          [Idle EXCEPT !.kind = "delete", !.pc = "d_read", !.user = u, !.id = id]]
    /\ UNCHANGED <<servers, allocated, nodeStatus, logs, nextId, sync, console>>

\* a lookup that forgets the user filter
OwnedByAnyone(r) == req[r].id \in Ids

\* the row a handler finds with .eq('id', id).eq('user_id', user.sub)
Owned(r) == req[r].id \in Ids /\ servers[req[r].id].user_id = req[r].user

\* a guard that forgets the starting state
BusyRunningOnly(status) == status = "running"

\* deletion is blocked while the server is active
Busy(status) == status = "running" \/ status = "starting"

\* read the row, refuse 404 / 409, then call agent.delete (its failure is caught
\* and only logged, so either outcome continues)
DeleteRead(r) ==
    /\ req[r].pc = "d_read"
    /\ \E agentOk \in BOOLEAN :
          req' = [req EXCEPT ![r] =
             IF ~Owned(r) THEN Finish(r, "404 server")
             ELSE IF Busy(servers[req[r].id].status) THEN Finish(r, "409 busy")
             ELSE [@ EXCEPT !.pc = "d_refetch", !.node = servers[req[r].id].node_id,
                            !.ram_mb = servers[req[r].id].ram_mb,
                            !.nodeAlloc = allocated[servers[req[r].id].node_id],
                            !.status = servers[req[r].id].status,
                            !.agentCalls = 1, !.agentOk = agentOk]]
    /\ UNCHANGED <<servers, allocated, nodeStatus, logs, nextId, started, sync, console>>

\* re-fetch the node's current allocated_ram_mb
DeleteRefetch(r) ==
    /\ req[r].pc = "d_refetch"
    /\ req' = [req EXCEPT ![r] =
          [@ EXCEPT !.pc = "d_update", !.freshAlloc = allocated[req[r].node]]]
    /\ UNCHANGED <<servers, allocated, nodeStatus, logs, nextId, started, sync, console>>

\* the subtraction without the clamp
FreedUnclamped(r) == req[r].freshAlloc - req[r].ram_mb

\* the subtraction from the snapshot the first read joined in
FreedFromSnapshot(r) == Max(0, req[r].nodeAlloc - req[r].ram_mb)

\* the value the delete writes to nodes.allocated_ram_mb
Freed(r) == Max(0, req[r].freshAlloc - req[r].ram_mb)

DeleteUpdate(r) ==
    /\ req[r].pc = "d_update"
    /\ allocated' = [allocated EXCEPT ![req[r].node] = Freed(r)]
    /\ req' = [req EXCEPT ![r] = [@ EXCEPT !.pc = "d_delete"]]
    /\ UNCHANGED <<servers, nodeStatus, logs, nextId, started, sync, console>>

\* the servers table after delete() of the rows in gone
Without(gone) == [i \in Ids \ gone |-> servers[i]]

DeleteRow(r) ==
    /\ req[r].pc = "d_delete"
    /\ servers' = Without({req[r].id})
    /\ req' = [req EXCEPT ![r] = Finish(r, "ok")]
    /\ UNCHANGED <<allocated, nodeStatus, logs, nextId, started, sync, console>>

DeleteStep(r) ==
    \/ DeleteRead(r)
    \/ DeleteRefetch(r)
    \/ DeleteUpdate(r)
    \/ DeleteRow(r)

\* ---------------------------------------------------------- power actions
PowerStart(r, u, id, action) ==
    /\ req[r].pc \in {"idle", "done"}
    /\ started' = started + 1
    /\ req' = [req EXCEPT ![r] =
          [Idle EXCEPT !.kind = "power", !.pc = "w_read", !.user = u, !.id = id,
                       !.action = action]]
    /\ UNCHANGED <<servers, allocated, nodeStatus, logs, nextId, sync, console>>

\* a handler that claims the transition although the agent did not answer
PowerReadOptimistic(r) ==
    /\ req[r].pc = "w_read"
    /\ \E agentOk \in BOOLEAN :
          req' = [req EXCEPT ![r] =
             IF ~Owned(r) THEN Finish(r, "404 server")
             ELSE IF servers[req[r].id].status = "suspended" THEN Finish(r, "403 suspended")
             ELSE [@ EXCEPT !.pc = "w_write", !.status = servers[req[r].id].status,
                            !.agentCalls = 1, !.agentOk = agentOk]]
    /\ UNCHANGED <<servers, allocated, nodeStatus, logs, nextId, started, sync, console>>

\* read the row, refuse 404 / 403, then call the agent: 502 when it fails
PowerRead(r) ==
    /\ req[r].pc = "w_read"
    /\ \E agentOk \in BOOLEAN :
          req' = [req EXCEPT ![r] =
             IF ~Owned(r) THEN Finish(r, "404 server")
             ELSE IF servers[req[r].id].status = "suspended" THEN Finish(r, "403 suspended")
             ELSE IF ~agentOk THEN Finish(r, "502 agent")
             ELSE [@ EXCEPT !.pc = "w_write", !.status = servers[req[r].id].status,
                            !.agentCalls = 1, !.agentOk = TRUE]]
    /\ UNCHANGED <<servers, allocated, nodeStatus, logs, nextId, started, sync, console>>

\* a status write that claims the final state
OptimisticFinal(action) == IF action = "stop" THEN "stopped" ELSE "running"

\* status: action === 'stop' ? 'stopping' : 'starting'
Optimistic(action) == IF action = "stop" THEN "stopping" ELSE "starting"

PowerWrite(r) ==
    /\ req[r].pc = "w_write"
    /\ servers' = SetStatus(req[r].id, Optimistic(req[r].action))
    /\ req' = [req EXCEPT ![r] = [@ EXCEPT !.pc = "w_log"]]
    /\ UNCHANGED <<allocated, nodeStatus, logs, nextId, started, sync, console>>

PowerLog(r) ==
    /\ req[r].pc = "w_log"
    /\ logs' = logs \cup {<<req[r].id, req[r].action>>}
    /\ req' = [req EXCEPT ![r] = Finish(r, "ok")]
    /\ UNCHANGED <<servers, allocated, nodeStatus, nextId, started, sync, console>>

PowerStep(r) ==
    \/ PowerRead(r)
    \/ PowerWrite(r)
    \/ PowerLog(r)

\* ------------------------------------------------------------ plan change
PlanStart(r, u, id, p) ==
    /\ req[r].pc \in {"idle", "done"}
    /\ started' = started + 1
    /\ req' = [req EXCEPT ![r] =
          [Idle EXCEPT !.kind = "plan", !.pc = "p_read", !.user = u, !.id = id,
                       !.plan_id = p]]
    /\ UNCHANGED <<servers, allocated, nodeStatus, logs, nextId, sync, console>>

\* verify the server belongs to the user, then fetch the new (active) plan
PlanRead(r) ==
    /\ req[r].pc = "p_read"
    /\ req' = [req EXCEPT ![r] =
          IF ~Owned(r) THEN Finish(r, "404 server")
          ELSE IF req[r].plan_id \notin ActivePlans THEN Finish(r, "404 plan")
          ELSE [@ EXCEPT !.pc = "p_update", !.ram_mb = PlanRam(req[r].plan_id)]]
    /\ UNCHANGED <<servers, allocated, nodeStatus, logs, nextId, started, sync, console>>

\* update the server record (plan_id, ram_mb, ...) where id = server.id
PlanUpdate(r) ==
    /\ req[r].pc = "p_update"
    /\ servers' = [i \in Ids |->
          IF i = req[r].id
          THEN [servers[i] EXCEPT !.plan_id = req[r].plan_id, !.ram_mb = req[r].ram_mb]
          ELSE servers[i]]
    /\ req' = [req EXCEPT ![r] = [@ EXCEPT !.pc = "p_agent"]]
    /\ UNCHANGED <<allocated, nodeStatus, logs, nextId, started, sync, console>>

\* re-read the row with its node and ask the agent to resize (a failure is only
\* logged)
PlanResize(r) ==
    /\ req[r].pc = "p_agent"
    /\ req' = [req EXCEPT ![r] = Finish(r, "ok")]
    /\ UNCHANGED <<servers, allocated, nodeStatus, logs, nextId, started, sync, console>>

PlanStep(r) ==
    \/ PlanRead(r)
    \/ PlanUpdate(r)
    \/ PlanResize(r)

\* ------------------------------------------------------- account deletion
\* DELETE /api/account: delete every server row of the user
AccountDelete(u) ==
    /\ started' = started + 1
    /\ servers' = Without(RowsOf(u))
    /\ UNCHANGED <<allocated, nodeStatus, logs, nextId, req, sync, console>>

\* ------------------------------------------------------------ status sync
\* no status-sync call was made yet
NoSync == [node |-> None, id |-> 0, status |-> None, lxc_ip |-> NoIp, result |-> None]

\* nodes.select('id').eq('agent_token', token).single()
NodeOfToken(token) ==
    IF \E n \in Nodes : AgentToken(n) = token
    THEN CHOOSE n \in Nodes : AgentToken(n) = token
    ELSE None

\* an update that forgets the node filter
SyncMatchesAnyNode(i, id, node) == i = id

\* the rows matched by .eq('id', id).eq('node_id', node.id)
SyncMatches(i, id, node) == i = id /\ servers[i].node_id = node

\* the servers table after update(updatePayload) on the matched rows
SyncUpdate(id, node, status, lxc_ip) ==
    [i \in Ids |->
        IF SyncMatches(i, id, node)
        THEN [servers[i] EXCEPT !.status = status,
                                !.lxc_ip = IF lxc_ip # NoIp THEN lxc_ip ELSE @]
        ELSE servers[i]]

\* POST /internal/servers/:id/status with a bearer token: 401 for a token of no
\* node, 400 for a status outside VALID_STATUSES, else the rows with that id on
\* the token's node are updated and the call answers ok (an update that matches
\* no row is not an error)
StatusSync(token, id, status, lxc_ip) ==
    LET node == NodeOfToken(token)
        call == [node |-> node, id |-> id, status |-> status, lxc_ip |-> lxc_ip,
                 result |-> None]
    IN  /\ started' = started + 1
        /\ IF node = None
           THEN /\ sync' = [call EXCEPT !.result = "401 token"]
                /\ UNCHANGED servers
           ELSE IF status \notin VALID_STATUSES
           THEN /\ sync' = [call EXCEPT !.result = "400 status"]
                /\ UNCHANGED servers
           ELSE /\ servers' = SyncUpdate(id, node, status, lxc_ip)
                /\ sync' = [call EXCEPT !.result = "ok"]
        /\ UNCHANGED <<allocated, nodeStatus, logs, nextId, req, console>>

\* ------------------------------------------------------------ init / next
EmptyTable == [i \in {} |-> 0]

\* the row a create of plan p by user u on node n at port leaves behind
Row(u, n, p, port, status) ==
    [ user_id |-> u, node_id |-> n, plan_id |-> p, port |-> port,
      ram_mb |-> PlanRam(p), status |-> status, lxc_ip |-> NoIp ]

\* The service starts on an empty store with both nodes online, or, with node
\* A alone online, on the store one earlier create (u1, plan small, node A,
\* default port) left behind.
Init ==
    /\ \/ /\ servers = EmptyTable
          /\ allocated = [n \in Nodes |-> 0]
          /\ logs = {}
          /\ nextId = 1
          /\ nodeStatus = [n \in Nodes |-> "online"]
       \/ /\ servers = [i \in {1} |-> Row("u1", "A", "small", BasePort, "installing")]
          /\ allocated = [n \in Nodes |-> IF n = "A" THEN PlanRam("small") ELSE 0]
          /\ logs = {<<1, "create">>}
          /\ nextId = 2
          /\ nodeStatus = [n \in Nodes |-> IF n = "A" THEN "online" ELSE "offline"]
    /\ req = [r \in Reqs |-> Idle]
    /\ started = 0
    /\ sync = NoSync
    /\ console = NoSession

\* a new request takes the lowest free slot
FreeSlot(r) ==
    /\ req[r].pc \in {"idle", "done"}
    /\ \A q \in Reqs : q < r => req[q].pc \notin {"idle", "done"}

\* ids a request may name: the rows of the table, and 0 for the id of no row
Targets == Ids \cup {0}

StartCreate ==
    \E r \in Reqs, u \in Users, p \in {"small", "large"} :
       started < MaxRequests /\ FreeSlot(r) /\ CreateStart(r, u, p, NoPort)

StartDelete ==
    \E r \in Reqs, u \in Users, id \in Targets :
       started < MaxRequests /\ FreeSlot(r) /\ DeleteStart(r, u, id)

StartPower ==
    \E r \in Reqs, u \in Users, id \in Targets, a \in Actions :
       started < MaxRequests /\ FreeSlot(r) /\ PowerStart(r, u, id, a)

StartPlan ==
    \E r \in Reqs, u \in Users, id \in Targets, p \in {"large", "missing"} :
       started < MaxRequests /\ FreeSlot(r) /\ PlanStart(r, u, id, p)

DeleteAccount ==
    \E u \in Users : started < MaxRequests /\ AccountDelete(u)

\* a bearer token that is no node's credential
ForgedToken == <<"token", "forged">>

\* status-sync calls: every node's agent with every body, and one call with a
\* token of no node
Watchdog ==
    \/ \E n \in Nodes, id \in Targets, body \in SyncInputs :
          started < MaxRequests /\ StatusSync(AgentToken(n), id, body.status, body.lxc_ip)
    \/ \E id \in Targets :
          started < MaxRequests /\ StatusSync(ForgedToken, id, "running", NoIp)

Next ==
    \/ StartCreate
    \/ StartDelete
    \/ StartPower
    \/ StartPlan
    \/ DeleteAccount
    \/ Watchdog
    \/ \E r \in Reqs : CreateStep(r)
    \/ \E r \in Reqs : DeleteStep(r)
    \/ \E r \in Reqs : PowerStep(r)
    \/ \E r \in Reqs : PlanStep(r)

Spec == Init /\ [][Next]_vars

\* ------------------------------------------------- the create flow alone
\* a store on which user u2 owns nine servers on node A at the ports after the
\* default one: the first live of them stopped, the others failed at provisioning
NineRows(live) ==
    [i \in 1..9 |-> Row("u2", "A", "small", BasePort + i,
                         IF i <= live THEN "stopped" ELSE "error")]

\* The service starts on an empty store (with both nodes or no node online) or on
\* a nine-server store (u2 at the server limit, or one below it) with node A
\* alone online.
InitCreate ==
    /\ \/ /\ servers = EmptyTable
          /\ allocated = [n \in Nodes |-> 0]
          /\ logs = {}
          /\ nextId = 1
          /\ nodeStatus \in {[n \in Nodes |-> "online"], [n \in Nodes |-> "offline"]}
       \/ \E live \in {ServerLimit - 1, ServerLimit} :
             /\ servers = NineRows(live)
             /\ logs = {<<i, "create">> : i \in 1..live}
          /\ allocated = [n \in Nodes |-> IF n = "A" THEN 9 * PlanRam("small") ELSE 0]
          /\ nextId = 10
          /\ nodeStatus = [n \in Nodes |-> IF n = "A" THEN "online" ELSE "offline"]
    /\ req = [r \in Reqs |-> Idle]
    /\ started = 0
    /\ sync = NoSync
    /\ console = NoSession

StartAnyCreate ==
    \E r \in Reqs, u \in Users, p \in {"small", "legacy", "missing"}, port \in PortInputs :
       started < MaxCreates /\ FreeSlot(r) /\ CreateStart(r, u, p, port)

NextCreate ==
    \/ StartAnyCreate
    \/ \E r \in Reqs : CreateStep(r)

SpecCreate == InitCreate /\ [][NextCreate]_vars

\* ------------------------------------------ creates at the top of the range
\* The service starts on an empty store with node A alone online.
InitPorts ==
    /\ servers = EmptyTable
    /\ allocated = [n \in Nodes |-> 0]
    /\ logs = {}
    /\ nextId = 1
    /\ nodeStatus = [n \in Nodes |-> IF n = "A" THEN "online" ELSE "offline"]
    /\ req = [r \in Reqs |-> Idle]
    /\ started = 0
    /\ sync = NoSync
    /\ console = NoSession

\* create requests that leave the port out or ask for the highest valid port
StartPortCreate ==
    \E r \in Reqs, u \in Users, port \in {NoPort, PortMax} :
       started < MaxCreates /\ FreeSlot(r) /\ CreateStart(r, u, "small", port)

NextPorts ==
    \/ StartPortCreate
    \/ \E r \in Reqs : CreateStep(r)

SpecPorts == InitPorts /\ [][NextPorts]_vars

\* ---------------------------------------------------------- console relay
\* frames relayed (or dropped) after the first one in one session
MaxFrames == 2

\* first frames a client may send: not JSON, JSON null, an object without a
\* token, and objects whose token is forged or the JWT of a user
RawFrames == {"garbage", "null", "{}", "{token:forged}", "{token:jwt-u1}", "{token:jwt-u2}"}

\* JSON.parse(raw.toString()) followed by parsed.token: both are in the try
\* block, so a frame that is not JSON and a JSON null end in the catch
ParseThrows(raw) == raw \in {"garbage", "null"}

TokenOf(raw) ==
    CASE raw = "{token:forged}" -> "forged"
      [] raw = "{token:jwt-u1}" -> "jwt-u1"
      [] raw = "{token:jwt-u2}" -> "jwt-u2"
      [] OTHER -> None

\* anonClient.auth.getUser(token): the user of a genuine JWT, else an error
GetUser(token) ==
    CASE token = "jwt-u1" -> "u1"
      [] token = "jwt-u2" -> "u2"
      [] OTHER -> None

\* console lines and commands a side may send
\* frames a side may send once the first frame is gone: a text frame, and a
\* binary frame whose bytes ("<ff>") are not valid UTF-8
Payloads == {[type |-> "text", message |-> "list"], [type |-> "binary", message |-> "<ff>"]}

\* Buffer.toString(): UTF-8 decoding, which replaces bytes that are not valid
\* UTF-8 by U+FFFD
toString(message) == IF message = "<ff>" THEN "<fffd>" ELSE message

ErrorFrame(msg) == [type |-> "error", message |-> msg]
LogFrame == [type |-> "log", message |-> "Console connected"]
\* send(data.toString()): a string is always sent as a text frame
RawFrame(data) == [type |-> "text", message |-> toString(data.message)]

\* socket.send on the client socket: dropped unless the socket is open
SendToClient(c, frame) ==
    IF c.client = "open" THEN Append(c.toClient, frame) ELSE c.toClient

\* deny(msg): send the error frame and close the client socket
Deny(c, msg) ==
    [c EXCEPT !.toClient = SendToClient(c, ErrorFrame(msg)),
              !.client = "closed", !.error = msg]

\* a client opens the console socket of server id: the handler registers the
\* listener for the first message
ConsoleOpen(id) ==
    /\ console.pc = "none"
    /\ console' = [NoSession EXCEPT !.pc = "waiting", !.id = id, !.client = "open"]
    /\ UNCHANGED <<servers, allocated, nodeStatus, logs, nextId, req, started, sync>>

\* socket.once('message'): parse the first frame, then start verifying the token
ConsoleFirstMessage(raw) ==
    /\ console.pc = "waiting" /\ console.client = "open"
    /\ console' =
          IF ParseThrows(raw)
          THEN [Deny(console, "Invalid auth message") EXCEPT !.pc = "denied"]
          ELSE IF TokenOf(raw) = None
          THEN [Deny(console, "Missing token") EXCEPT !.pc = "denied"]
          ELSE [console EXCEPT !.pc = "getUser", !.token = TokenOf(raw),
                               !.fromClient = <<[type |-> "text", message |-> raw]>>]
    /\ UNCHANGED <<servers, allocated, nodeStatus, logs, nextId, req, started, sync>>

\* the identity provider answered
ConsoleGetUser ==
    /\ console.pc = "getUser"
    /\ console' =
          IF GetUser(console.token) = None
          THEN [Deny(console, "Unauthorized") EXCEPT !.pc = "denied"]
          ELSE [console EXCEPT !.pc = "lookup", !.user = GetUser(console.token)]
    /\ UNCHANGED <<servers, allocated, nodeStatus, logs, nextId, req, started, sync>>

\* an ownership check that forgets the user filter
ConsoleOwnedByAnyone(c) == c.id \in Ids

\* servers.eq('id', id).eq('user_id', user.id).single()
ConsoleOwned(c) == c.id \in Ids /\ servers[c.id].user_id = c.user

\* the ownership query answered: deny, or open the agent socket and register
\* the relay and close listeners
ConsoleLookup ==
    /\ console.pc = "lookup"
    /\ console' =
          IF ~ConsoleOwned(console)
          THEN [Deny(console, "Server not found") EXCEPT !.pc = "denied"]
          ELSE [console EXCEPT !.pc = "relay", !.agent = "connecting"]
    /\ UNCHANGED <<servers, allocated, nodeStatus, logs, nextId, req, started, sync>>

\* agentWs 'open': the log frame is sent to the client
AgentOpen ==
    /\ console.pc = "relay" /\ console.agent = "connecting"
    /\ console' = [console EXCEPT !.agent = "open",
                                   !.toClient = SendToClient(console, LogFrame)]
    /\ UNCHANGED <<servers, allocated, nodeStatus, logs, nextId, req, started, sync>>

\* the agent refuses the connection: agentWs 'error' then 'close'
AgentRefuses ==
    /\ console.pc = "relay" /\ console.agent = "connecting"
    /\ console' = [Deny(console, "Agent connection failed") EXCEPT !.agent = "closed"]
    /\ UNCHANGED <<servers, allocated, nodeStatus, logs, nextId, req, started, sync>>

\* the open agent socket fails: agentWs 'error' then 'close'
AgentError ==
    /\ console.pc = "relay" /\ console.agent = "open"
    /\ console' = [Deny(console, "Agent connection failed") EXCEPT !.agent = "closed"]
    /\ UNCHANGED <<servers, allocated, nodeStatus, logs, nextId, req, started, sync>>

\* the agent closes its side: agentWs 'close' -> socket.close()
AgentClose ==
    /\ console.pc = "relay" /\ console.agent = "open"
    /\ console' = [console EXCEPT !.agent = "closed", !.client = "closed"]
    /\ UNCHANGED <<servers, allocated, nodeStatus, logs, nextId, req, started, sync>>

\* agent -> browser: relayed while the client socket is open
AgentMessage(data) ==
    /\ console.pc = "relay" /\ console.agent = "open"
    /\ console.frames < MaxFrames
    /\ console' = [console EXCEPT !.frames = @ + 1,
                                   !.fromAgent = Append(@, data),
                                   !.toClient = SendToClient(console, RawFrame(data))]
    /\ UNCHANGED <<servers, allocated, nodeStatus, logs, nextId, req, started, sync>>

\* a relay that forwards whatever the client sends as soon as it can
ClientMessageEager(data) ==
    /\ console.pc \in {"getUser", "lookup", "relay"} /\ console.client = "open"
    /\ console.frames < MaxFrames
    /\ console' = [console EXCEPT
          !.frames = @ + 1,
          !.fromClient = Append(@, data),
          !.toAgent = Append(@, RawFrame(data))]
    /\ UNCHANGED <<servers, allocated, nodeStatus, logs, nextId, req, started, sync>>

\* browser -> agent: a frame after the first one reaches the agent when the
\* relay listener is registered and the agent socket is open; else it is lost
ClientMessage(data) ==
    /\ console.pc \in {"getUser", "lookup", "relay"} /\ console.client = "open"
    /\ console.frames < MaxFrames
    /\ console' = [console EXCEPT
          !.frames = @ + 1,
          !.fromClient = Append(@, data),
          !.toAgent = IF console.pc = "relay" /\ console.agent = "open"
                      THEN Append(@, RawFrame(data)) ELSE @]
    /\ UNCHANGED <<servers, allocated, nodeStatus, logs, nextId, req, started, sync>>

\* the client closes its socket: socket 'close' -> agentWs.close(), for a
\* listener that is registered when the event fires
ClientClose ==
    /\ console.pc # "none" /\ console.client = "open"
    /\ console' = [console EXCEPT
          !.client = "closed",
          !.agent = IF console.pc = "relay" /\ @ \in {"connecting", "open"}
                    THEN "closed" ELSE @]
    /\ UNCHANGED <<servers, allocated, nodeStatus, logs, nextId, req, started, sync>>

\* the continuations of the handler's awaits
ConsoleAuth == ConsoleGetUser \/ ConsoleLookup

\* the outcome of the connection attempt to the agent
AgentAnswers == AgentOpen \/ AgentRefuses

\* The service runs on an empty store or on the store one create (u1, plan
\* small, node A) left behind; no request is in flight.
InitConsole ==
    /\ \/ /\ servers = EmptyTable
          /\ allocated = [n \in Nodes |-> 0]
          /\ logs = {}
          /\ nextId = 1
       \/ /\ servers = [i \in {1} |-> Row("u1", "A", "small", BasePort, "running")]
          /\ allocated = [n \in Nodes |-> IF n = "A" THEN PlanRam("small") ELSE 0]
          /\ logs = {<<1, "create">>}
          /\ nextId = 2
    /\ nodeStatus = [n \in Nodes |-> "online"]
    /\ req = [r \in Reqs |-> Idle]
    /\ started = 0
    /\ sync = NoSync
    /\ console = NoSession

NextConsole ==
    \/ \E id \in Targets : ConsoleOpen(id)
    \/ \E raw \in RawFrames : ConsoleFirstMessage(raw)
    \/ ConsoleAuth
    \/ AgentAnswers
    \/ AgentError
    \/ AgentClose
    \/ \E data \in Payloads : AgentMessage(data)
    \/ \E data \in Payloads : ClientMessage(data)
    \/ ClientClose

\* the awaited calls of the handler return and the connection attempt to the
\* agent ends; what the client and the agent do on their own is not forced
SpecConsole ==
    InitConsole /\ [][NextConsole]_vars /\ WF_vars(ConsoleAuth) /\ WF_vars(AgentAnswers)

\* ================================================================== claims
Stepped(r) == req'[r] # req[r]

\* a step of request r from position a to position b
Moves(r, a, b) == req[r].pc = a /\ req'[r].pc = b

\* request r returns in this step
Returns(r) == Stepped(r) /\ req'[r].pc = "done"

\* C1: in every reachable state, two distinct server rows on the same node have
\* different ports.
PortsUniquePerNode ==
    \A i \in Ids : \A j \in Ids :
       i # j /\ servers[i].node_id = servers[j].node_id
          => servers[i].port # servers[j].port

\* a create lost the race for its port, retried and inserted next to the winner
C1Witness ==
    \E r \in Reqs :
       /\ req[r].pc = "c_reserve"
       /\ req[r].insertAttempts >= 1
       /\ \E i \in Ids : /\ i # req[r].id
                          /\ servers[i].node_id = req[r].node
                          /\ servers[i].port = req[r].port - 1

\* C2: in every reachable state every node's allocated_ram_mb is >= 0.
AllocatedNonNegative == \A n \in Nodes : allocated[n] >= 0

\* a delete subtracted more than the node had allocated and the clamp acted
C2Witness ==
    \E r \in Reqs :
       /\ req[r].pc = "d_delete"
       /\ req[r].freshAlloc < req[r].ram_mb
       /\ allocated[req[r].node] = 0

\* C3: in every reachable state every node's allocated_ram_mb is at most its
\* total_ram_mb (a create is never admitted onto a node it would overcommit).
AllocatedWithinTotal == \A n \in Nodes : allocated[n] <= NodeTotal(n)

\* C4: every create whose insert succeeded yields a row with status installing
\* and its reserve step raises the node's allocated_ram_mb by exactly the plan's
\* ram_mb, also when creates interleave.
CreateAddsPlanRam ==
    [][\A r \in Reqs :
         /\ Moves(r, "c_insert", "c_reserve")
               => servers'[req'[r].id].status = "installing"
         /\ Moves(r, "c_reserve", "c_agent")
               => allocated'[req[r].node] = allocated[req[r].node] + req[r].ram_mb]_vars

\* C5 as stated: the write of a delete lowers the node's allocated_ram_mb by
\* exactly the server's ram_mb, clamped at zero, whatever interleaves.
DeleteFreesExactly ==
    [][\A r \in Reqs :
         Moves(r, "d_update", "d_delete")
            => allocated'[req[r].node]
                  = Max(0, allocated[req[r].node] - req[r].ram_mb)]_vars

\* C5 as amended: the delete reads the row's ram_mb m at its start, re-reads the
\* node's allocated_ram_mb v after the agent call and writes max(0, v - m); the
\* node's allocation drops by exactly m (clamped at zero) when no other write
\* changed the counter between the re-read and the write.
DeleteFreesFromReread ==
    [][\A r \in Reqs :
         /\ Moves(r, "d_read", "d_refetch")
               => req'[r].ram_mb = servers[req[r].id].ram_mb
         /\ Moves(r, "d_refetch", "d_update")
               => req'[r].freshAlloc = allocated[req[r].node]
         /\ Moves(r, "d_update", "d_delete")
               => /\ allocated'[req[r].node]
                        = Max(0, req[r].freshAlloc - req[r].ram_mb)
                  /\ allocated[req[r].node] = req[r].freshAlloc
                        => allocated'[req[r].node]
                              = Max(0, allocated[req[r].node] - req[r].ram_mb)]_vars

\* a delete has written the re-read value minus the server's ram, and the
\* re-read differed from what the node held when the delete first read the row
C5Witness ==
    \E r \in Reqs :
       /\ req[r].pc = "d_delete"
       /\ req[r].ram_mb > 0
       /\ req[r].freshAlloc >= req[r].ram_mb
       /\ req[r].freshAlloc # req[r].nodeAlloc
       /\ allocated[req[r].node] = req[r].freshAlloc - req[r].ram_mb

\* C6: a delete by the owner is refused with 409 exactly when the status it
\* reads is running or starting; for every other status it goes on, whether the
\* agent call succeeded or not, and returns ok with the row removed.
DeleteConflictIff ==
    [][\A r \in Reqs :
         /\ (req[r].pc = "d_read" /\ Stepped(r) /\ Owned(r))
               => /\ req'[r].result = "409 busy"
                        <=> servers[req[r].id].status \in {"running", "starting"}
                  /\ servers[req[r].id].status \notin {"running", "starting"}
                        => req'[r].pc = "d_refetch"
         /\ (req[r].pc \in {"d_refetch", "d_update", "d_delete"} /\ Stepped(r))
               => /\ req'[r].pc \in {"d_update", "d_delete", "done"}
                  /\ req'[r].pc = "done"
                        => req'[r].result = "ok" /\ req[r].id \notin DOMAIN servers']_vars

\* a delete by the owner was refused and the row is there, still active
C6Witness ==
    \E r \in Reqs :
       /\ req[r].kind = "delete" /\ req[r].result = "409 busy"
       /\ req[r].id \in Ids
       /\ servers[req[r].id].user_id = req[r].user
       /\ servers[req[r].id].status \in {"running", "starting"}

\* C8: when the agent create call fails after the insert, the request answers
\* 502, the row (if still there) stays with status error, no row is removed, the
\* node's allocated_ram_mb is left as reserved and no log entry is written.
AgentFailureKeepsRow ==
    [][\A r \in Reqs :
         (req[r].pc = "c_agent" /\ Returns(r) /\ req'[r].result # "201")
            => /\ req'[r].result = "502 agent"
               /\ DOMAIN servers' = DOMAIN servers
               /\ req[r].id \in Ids => servers'[req[r].id].status = "error"
               /\ allocated' = allocated
               /\ logs' = logs]_vars

\* a create answered 502: its row is there with status error, its node still
\* holds the reservation and no create entry was logged for it
C8Witness ==
    \E r \in Reqs :
       /\ req[r].kind = "create" /\ req[r].result = "502 agent"
       /\ req[r].id \in Ids
       /\ servers[req[r].id].status = "error"
       /\ allocated[servers[req[r].id].node_id] >= servers[req[r].id].ram_mb
       /\ <<req[r].id, "create">> \notin logs

\* C7: a create request (valid body, existing plan) whose count query finds 5
\* or more servers of the user with status other than error answers 403 without
\* inserting a row, reserving RAM or calling the agent, whatever nodes and ports
\* are free; rows with status error are not counted, so below 5 it goes on.
LimitRejects ==
    [][\A r \in Reqs :
         (req[r].pc = "c_count" /\ Stepped(r))
            => LET live == {i \in DOMAIN servers :
                              /\ servers[i].user_id = req[r].user
                              /\ servers[i].status # "error"}
               IN  /\ Cardinality(live) >= 5
                         => /\ req'[r].pc = "done" /\ req'[r].result = "403 limit"
                            /\ servers' = servers /\ allocated' = allocated
                            /\ logs' = logs
                            /\ req[r].id = 0 /\ req[r].agentCalls = 0
                            /\ req'[r].id = 0 /\ req'[r].agentCalls = 0
                   /\ Cardinality(live) < 5 => req'[r].pc = "c_node"]_vars

\* a user with exactly five live servers, and failed ones besides, was refused
\* while node A was online with free ports
C7Witness ==
    \E r \in Reqs :
       /\ req[r].kind = "create" /\ req[r].result = "403 limit"
       /\ Cardinality({i \in Ids : servers[i].user_id = req[r].user
                                     /\ servers[i].status # "error"}) = 5
       /\ \E i \in Ids : servers[i].user_id = req[r].user /\ servers[i].status = "error"
       /\ nodeStatus["A"] = "online"

\* steps a create request has left at most, by its position in the handler
Rank(q) ==
    CASE q.pc = "c_count" -> 16
      [] q.pc = "c_node" -> 15
      [] q.pc = "c_ports" -> 14
      [] q.pc = "c_insert" -> 13 - q.insertAttempts
      [] q.pc = "c_reserve" -> 2
      [] q.pc = "c_agent" -> 1
      [] OTHER -> 0

\* C9: the insert retry is bounded: an insert is attempted only while fewer than
\* 10 collisions were seen; a collision adds one to the port and to the count;
\* the 10th collision ends the request with the port-allocation failure, with no
\* row inserted, no RAM reserved and no agent call; another insert error ends it
\* at once; and every step of a create request brings it nearer to its answer.
InsertRetryBounded ==
    [][\A r \in Reqs :
         /\ (req[r].pc = "c_insert" /\ Stepped(r))
               => /\ req[r].insertAttempts < 10
                  /\ \/ /\ req'[r].pc = "c_reserve"
                        /\ req'[r].insertAttempts = req[r].insertAttempts
                        /\ req'[r].id \in DOMAIN servers' \ DOMAIN servers
                        /\ servers'[req'[r].id].port = req[r].port
                     \/ /\ req'[r].pc = "c_insert"
                        /\ \E i \in Ids : /\ servers[i].node_id = req[r].node
                                           /\ servers[i].port = req[r].port
                        /\ req'[r].port = req[r].port + 1
                        /\ req'[r].insertAttempts = req[r].insertAttempts + 1
                        /\ req'[r].insertAttempts < 10
                        /\ servers' = servers /\ allocated' = allocated /\ logs' = logs
                     \/ /\ req'[r].pc = "done" /\ req'[r].result = "500 ports"
                        /\ req[r].insertAttempts = 9 /\ req'[r].insertAttempts = 10
                        /\ req[r].id = 0 /\ req[r].agentCalls = 0
                        /\ servers' = servers /\ allocated' = allocated /\ logs' = logs
                     \/ /\ req'[r].pc = "done" /\ req'[r].result = "500 insert"
                        /\ servers' = servers /\ allocated' = allocated /\ logs' = logs
         /\ (req[r].kind = "create" /\ req[r].pc # "done" /\ Stepped(r))
               => Rank(req'[r]) < Rank(req[r]) /\ Rank(req'[r]) >= 0]_vars

\* a create gave up after its tenth collision
C9Witness ==
    \E r \in Reqs :
       /\ req[r].kind = "create" /\ req[r].result = "500 ports"
       /\ req[r].insertAttempts = 10 /\ req[r].id = 0

\* C10: when exactly two creates ran on a store that held no server and both
\* hold a row on the same node, neither was refused a port, the two rows have
\* ports 25565 and 25566, the row at 25565 was inserted without a conflict, and
\* a create that met a conflict met exactly one and holds 25566.
TwoCreatesRace ==
    (started <= 2 /\ nextId <= 3)
       => /\ \A r \in Reqs : req[r].result # "500 ports" /\ req[r].insertAttempts <= 1
          /\ \A r \in Reqs : \A q \in Reqs :
                ( /\ r # q
                  /\ req[r].kind = "create" /\ req[q].kind = "create"
                  /\ req[r].id \in Ids /\ req[q].id \in Ids
                  /\ servers[req[r].id].node_id = servers[req[q].id].node_id )
                => /\ {servers[req[r].id].port, servers[req[q].id].port}
                         = {BasePort, BasePort + 1}
                   /\ servers[req[r].id].port = BasePort => req[r].insertAttempts = 0
                   /\ req[r].insertAttempts = 1 => servers[req[r].id].port = BasePort + 1

\* both creates of the race hold their rows: 25565 and, after one conflict, 25566
C10Witness ==
    /\ started = 2 /\ nextId = 3
    /\ \E r \in Reqs : \E q \in Reqs :
          /\ req[r].kind = "create" /\ req[q].kind = "create"
          /\ req[r].id \in Ids /\ req[q].id \in Ids
          /\ servers[req[r].id].node_id = servers[req[q].id].node_id
          /\ servers[req[r].id].port = 25565 /\ req[r].insertAttempts = 0
          /\ servers[req[q].id].port = 25566 /\ req[q].insertAttempts = 1

\* C11: every port the create flow holds as its candidate for an insert, and
\* every port of a server row, lies in [1024, 65535].
PortsInRange ==
    /\ \A r \in Reqs :
          req[r].pc = "c_insert" => req[r].port >= PortMin /\ req[r].port <= PortMax
    /\ \A i \in Ids : servers[i].port >= PortMin /\ servers[i].port <= PortMax

\* a step that is a status-sync call (it takes no request slot and removes no row)
SyncStep == started' = started + 1 /\ req' = req /\ DOMAIN servers' = DOMAIN servers

\* C12: a status-sync call whose credential is not that of the server's node
\* leaves the server row (status and lxc_ip) unchanged, whatever it reports.
CrossNodeSyncNoEffect ==
    [][\A i \in Ids :
         (SyncStep /\ sync'.id = i /\ sync'.node # servers[i].node_id)
            => servers'[i] = servers[i]]_vars

\* node B's agent reported another status (with a valid credential and a valid
\* status) for a server of node A, and the row kept its own
C12Witness ==
    /\ sync.node = "B" /\ sync.status \in VALID_STATUSES
    /\ sync.id \in Ids
    /\ servers[sync.id].node_id = "A"
    /\ servers[sync.id].status # sync.status
    /\ servers[sync.id].lxc_ip = NoIp

\* C13: a status-sync call made with the valid credential of a node other than
\* the server's node never answers with success.
CrossNodeSyncRejected ==
    (sync.node \in Nodes /\ sync.id \in Ids /\ servers[sync.id].node_id # sync.node)
       => sync.result # "ok"

\* C14: a power action whose agent call failed answers 502 with the servers
\* table and the log as they were; the status is written (starting for start and
\* restart, stopping for stop) and the action logged only by a request whose
\* agent call succeeded, and by no other step of a power request.
PowerFailureNoEffect ==
    [][\A r \in Reqs :
         /\ (req[r].pc = "w_read" /\ Stepped(r))
               => /\ servers' = servers /\ logs' = logs
                  /\ req'[r].result = "502 agent" => req'[r].pc = "done"
                  /\ req'[r].pc = "w_write" => req'[r].agentOk
         /\ Moves(r, "w_write", "w_log")
               => /\ req[r].agentOk /\ logs' = logs
                  /\ req[r].id \in Ids
                        => servers'[req[r].id].status
                              = IF req[r].action = "stop" THEN "stopping" ELSE "starting"
         /\ (req[r].pc = "w_log" /\ Stepped(r))
               => /\ req[r].agentOk /\ servers' = servers
                  /\ logs' = logs \cup {<<req[r].id, req[r].action>>}]_vars

\* a power action answered 502: the server is there with a status of neither
\* starting nor stopping and no entry was logged for it
C14Witness ==
    \E r \in Reqs :
       /\ req[r].kind = "power" /\ req[r].result = "502 agent"
       /\ req[r].id \in Ids
       /\ servers[req[r].id].status \notin {"starting", "stopping"}
       /\ \A a \in Actions : <<req[r].id, a>> \notin logs

\* C15: a power request that reads a suspended server answers 403 without an
\* agent call, and no step of a power request changes a stored status of
\* suspended, whatever interleaves.
SuspendedStaysSuspended ==
    [][\A r \in Reqs :
         /\ (req[r].pc = "w_read" /\ Stepped(r) /\ Owned(r)
               /\ servers[req[r].id].status = "suspended")
               => req'[r].result = "403 suspended" /\ req'[r].agentCalls = 0
         /\ (req[r].kind = "power" /\ Stepped(r) /\ req[r].id \in Ids
               /\ servers[req[r].id].status = "suspended")
               => /\ req[r].id \in DOMAIN servers'
                  /\ servers'[req[r].id].status = "suspended"]_vars

\* C16: the stored status of a server becomes running or stopped only in a
\* status-sync call that was accepted, names that server, carries the credential
\* of its node and reports that status.
AuthoritativeOnlyBySync ==
    [][\A i \in Ids \cap DOMAIN servers' :
         (servers'[i].status \in {"running", "stopped"}
            /\ servers'[i].status # servers[i].status)
            => /\ SyncStep
               /\ sync'.result = "ok" /\ sync'.id = i
               /\ sync'.node = servers[i].node_id
               /\ sync'.status = servers'[i].status]_vars

\* a power action was accepted and logged, and the server is running since its
\* node's agent reported it
C16Witness ==
    \E r \in Reqs :
       /\ req[r].kind = "power" /\ req[r].result = "ok"
       /\ req[r].id \in Ids /\ sync.id = req[r].id
       /\ sync.result = "ok" /\ sync.status = "running"
       /\ sync.node = servers[req[r].id].node_id
       /\ servers[req[r].id].status = "running"

\* C17: a create request past its plan resolution names an active plan, and so
\* does every server row (a missing or inactive plan was answered 404 before
\* anything else happened).
InactivePlanRejected ==
    /\ \A r \in Reqs :
          (req[r].kind = "create" /\ req[r].pc \notin {"idle", "done"})
             => req[r].plan_id \in ActivePlans
    /\ \A i \in Ids : servers[i].plan_id \in ActivePlans

\* C18: no step removes a server row whose stored status is running or starting.
NoActiveRowRemoved ==
    [][\A i \in Ids \ DOMAIN servers' :
         servers[i].status \notin {"running", "starting"}]_vars

\* the first frame failed authentication at this step
AuthFails ==
    console.pc \in {"waiting", "getUser", "lookup"} /\ console'.pc = "denied"

\* C19: a step at which authentication fails (frame not JSON, token missing,
\* credential rejected, server absent or of another user) sends an error frame
\* on the client socket (when it is still open) and leaves it closed with no
\* agent socket; the agent socket is opened only at a step where the verified
\* user owns the named server, and a denied session never has one.
AuthBeforeAgent ==
    [][/\ AuthFails
          => /\ console'.client = "closed" /\ console'.agent = "none"
             /\ console.client = "open"
                   => /\ Len(console'.toClient) = Len(console.toClient) + 1
                      /\ console'.toClient[Len(console'.toClient)].type = "error"
       /\ (console.pc = "waiting" /\ console'.pc # "waiting")
          => /\ console'.pc = "denied" <=> console'.token = None
             /\ console'.pc # "denied"
                   => console'.token \in {"forged", "jwt-u1", "jwt-u2"}
       /\ (console.pc = "getUser" /\ console'.pc # "getUser")
          => (console'.pc = "denied" <=> console.token \notin {"jwt-u1", "jwt-u2"})
       /\ (console.agent = "none" /\ console'.agent # "none")
          => /\ console.pc = "lookup"
             /\ console.user \in Users
             /\ console.token = IF console.user = "u1" THEN "jwt-u1" ELSE "jwt-u2"
             /\ console.id \in Ids /\ servers[console.id].user_id = console.user
       /\ console.pc = "denied"
          => console'.agent = "none" /\ console'.client = "closed"]_vars

\* an authenticated user asked for the console of a server of another user: an
\* error frame was sent, the client socket is closed, no agent socket exists
C19Witness ==
    /\ console.pc = "denied" /\ console.user \in Users
    /\ console.id \in Ids /\ servers[console.id].user_id # console.user
    /\ console.toClient = <<ErrorFrame("Server not found")>>
    /\ console.client = "closed" /\ console.agent = "none"

\* C20: whenever the client socket is closed the agent socket is eventually not
\* open (or connecting), and whenever the agent socket is closed the client
\* socket is eventually closed.
CloseClosesPeer ==
    /\ (console.client = "closed") ~> (console.agent \notin {"connecting", "open"})
    /\ (console.agent = "closed") ~> (console.client = "closed")

\* the frame a side received last
LastOf(q) == q[Len(q)]

\* C21: while the client socket and the agent socket are both open, a frame
\* received on one side is forwarded at once to the other side as it was
\* received (same kind, same content), after the frames forwarded before it.
RelayVerbatim ==
    [][/\ console.client = "open" /\ console.agent = "open"
       /\ console'.client = "open" /\ console'.agent = "open"
       => /\ Len(console'.fromClient) = Len(console.fromClient) + 1
                => console'.toAgent
                      = Append(console.toAgent, LastOf(console'.fromClient))
          /\ Len(console'.fromAgent) = Len(console.fromAgent) + 1
                => console'.toClient
                      = Append(console.toClient, LastOf(console'.fromAgent))]_vars

\* C27: a frame reaches the agent only at the step at which the client sent
\* it, in a session whose user was verified and owns the server and whose agent
\* socket is open; so the first frame, and the frames sent while the checks
\* were running, are never forwarded, then or later.
FirstFrameStaysPrivate ==
    [][console'.toAgent # console.toAgent
         => /\ console.pc = "relay" /\ console.agent = "open"
            /\ console.user \in Users /\ console.id \in Ids
            /\ servers[console.id].user_id = console.user
            /\ Len(console.fromClient) >= 1
            /\ Len(console'.fromClient) = Len(console.fromClient) + 1
            /\ Len(console'.toAgent) = Len(console.toAgent) + 1
            /\ \A k \in 1..Len(console.toAgent) : console'.toAgent[k] = console.toAgent[k]
            /\ LastOf(console'.fromClient).type = "text"
                  => LastOf(console'.toAgent) = LastOf(console'.fromClient)]_vars

\* the client sent its credential, a frame while the checks were running and a
\* frame on the open relay: the agent got the last one only
C27Witness ==
    /\ console.pc = "relay" /\ console.agent = "open"
    /\ Len(console.fromClient) = 3
    /\ console.fromClient[2] = console.fromClient[3]
    /\ console.toAgent = <<console.fromClient[3]>>

RECURSIVE SumRam(_)
SumRam(S) ==
    IF S = {} THEN 0
    ELSE LET i == CHOOSE j \in S : TRUE
         IN  servers[i].ram_mb + SumRam(S \ {i})

\* C23: in every state with no request in flight, every node's
\* allocated_ram_mb is the sum of ram_mb over the server rows on that node.
LedgerConsistent ==
    (\A r \in Reqs : req[r].pc \in {"idle", "done"})
       => \A n \in Nodes :
             allocated[n] = SumRam({i \in Ids : servers[i].node_id = n})

\* C24: in every reachable state no user owns more than 5 server rows with a
\* status other than error.
AtMostFiveLive ==
    \A u \in Users :
       Cardinality({i \in Ids : servers[i].user_id = u /\ servers[i].status # "error"})
          <= 5

\* the status a request saw the server in before its agent call
Saw(r) == IF req[r].kind = "create" THEN "installing" ELSE req[r].status

\* C25: when the node's agent reported a status for the server after a power
\* action (or a create) read it and before that request writes its own status
\* (starting/stopping, or error), the write leaves the reported status stored.
NewerReportKept ==
    [][\A r \in Reqs :
         ( /\ req[r].pc \in {"w_write", "c_agent"} /\ Stepped(r)
           /\ req[r].id \in Ids
           /\ sync.result = "ok" /\ sync.id = req[r].id
           /\ sync.node = servers[req[r].id].node_id
           /\ servers[req[r].id].status = sync.status
           /\ sync.status # Saw(r) )
            => /\ req[r].id \in DOMAIN servers'
               /\ servers'[req[r].id].status = sync.status]_vars

\* C26: a power action, delete or plan change by a user on a server row of
\* another user answers 404 at its first step, with no agent call and with the
\* servers table, the nodes' allocated_ram_mb and the log unchanged.
CrossUserIsolated ==
    [][\A r \in Reqs :
         ( /\ req[r].pc \in {"w_read", "d_read", "p_read"} /\ Stepped(r)
           /\ req[r].id \in Ids
           /\ servers[req[r].id].user_id # req[r].user )
            => /\ req'[r].pc = "done" /\ req'[r].result = "404 server"
               /\ req'[r].agentCalls = 0
               /\ servers' = servers /\ allocated' = allocated /\ logs' = logs]_vars

\* user u2 was answered 404 for a server that exists and belongs to u1
C26Witness ==
    \E r \in Reqs :
       /\ req[r].kind \in {"power", "delete", "plan"}
       /\ req[r].result = "404 server" /\ req[r].user = "u2"
       /\ req[r].id \in Ids /\ servers[req[r].id].user_id = "u1"
       /\ req[r].agentCalls = 0

====
